---- MODULE Spec2Model ----
(***************************************************************************)
(* Order management backend (backend/server.js): POST /orders places an    *)
(* order against the product inventory inside a Prisma transaction and     *)
(* bumps the cache version; GET /orders serves paginated listings through a *)
(* Redis cache whose keys carry that version.                              *)
(*                                                                         *)
(* Each handler is an async function: one action per stretch of code       *)
(* between two awaits.  The database is PostgreSQL under Prisma's default   *)
(* isolation (READ COMMITTED): writes of an open transaction are invisible  *)
(* to other sessions until it commits, an UPDATE takes the row's lock and   *)
(* holds it until the transaction ends.                                    *)
(***************************************************************************)
EXTENDS Integers, Sequences, FiniteSets, TLC

(* ------------------------------ bounds -------------------------------- *)
NumProducts == 2
NumUsers == 2
MaxItems == 2
MaxQty == 2
MaxStock == 2
NumPosts == 2
NumGets == 2
NumInst == 2
MaxTicks == 2
MaxPrice == 3
MaxSeeded == 12

(* -------------------------- program constants ------------------------- *)
InitialVer == 1
DefaultPage == 1
DefaultLimit == 10
TTL == 30

\* time advances in steps of two thirds of a TTL
TickStep == (2 * TTL) \div 3

Products == 1..NumProducts
Users == 1..NumUsers
PostReqs == 1..NumPosts
GetReqs == 1..NumGets
Instances == 1..NumInst
Prices == 1..MaxPrice

\* ids a request may name: the existing ones and one that does not exist;
\* userId 0 stands for a missing (falsy) userId
ProductIds == 1..(NumProducts + 1)
UserIds == 0..(NumUsers + 1)
Qtys == 0..MaxQty

\* items given as something that is not an array (a string, an object, or
\* nothing at all): a value no list of lines equals
NotAList == <<[notArray |-> TRUE]>>
IsArray(items) == items # NotAList

ItemT == [productId : ProductIds, quantity : Qtys]
ItemLists == UNION {[1..n -> ItemT] : n \in 0..MaxItems}
\* request bodies: every list of lines for user 1; one line for any other
\* user, existing, unknown or missing
Bodies ==
  {b \in [userId : UserIds, items : ItemLists] :
     b.userId # 1 => b.items = <<[productId |-> 1, quantity |-> 1]>>}
  \cup {[userId |-> 1, items |-> NotAList]}

Line(p, q) == [productId |-> p, quantity |-> q]
OneUnitOf(p) == [userId |-> 1, items |-> <<Line(p, 1)>>]

\* query strings of GET /orders: a parameter is absent (<<>>) or given (<<n>>)
Absent == <<>>
NoSearch == <<>>
Query(p, l, s) == [page |-> p, limit |-> l, search |-> s]
Queries ==
  {Query(p, l, s) : p \in {Absent, <<0>>, <<3>>}, l \in {Absent, <<0>>, <<5>>},
                    s \in {NoSearch, <<"j", "O">>, <<"z">>}}

None == [id |-> 0]
Null == <<>>

VARIABLES
  stock,          \* product.stock, committed value per product
  price,          \* product.price per product
  orders,         \* committed orders with their lines, in commit order
  nextId,         \* next order id / creation stamp handed out by the store
  ppc,            \* POST /orders: position of each request
  pinst,          \* server instance that runs the request
  body,           \* req.body
  total,          \* total computed by the validation loop
  orderItemsData, \* lines computed by the validation loop
  created,        \* the order built inside the open transaction
  txDone,         \* stock updates executed inside the open transaction
  setVal,         \* argument of the pending redisClient.set('orders:ver', ..)
  pstatus,        \* HTTP status answered (0: none yet)
  queue,          \* 'confirm_order' messages logged
  ORDERS_VER,     \* per instance
  redisClient,    \* per instance: REDIS_URL configured
  redisReady,     \* per instance
  redisVer,       \* Redis key 'orders:ver' (Null: absent)
  redisQueue,     \* per instance: the requests whose Redis command is sent, in order
  cache,          \* Redis keys 'orders:v..': key -> [val, exp] (asOf: history)
  now,            \* time, in seconds
  get,            \* GET /orders: locals and position of each request
  initStock,      \* history: the stock before any request
  ph,             \* history of each POST request
  gh              \* history of each GET request

storeVars == <<stock, price, orders, nextId>>
postVars == <<ppc, pinst, body, total, orderItemsData, created, txDone, setVal, pstatus, queue>>
verVars == <<ORDERS_VER, redisClient, redisReady, redisVer, redisQueue>>
cacheVars == <<cache, now>>
histVars == <<initStock, ph, gh>>
vars == <<storeVars, postVars, verVars, cacheVars, get, histVars>>

(* ------------------------------ helpers ------------------------------- *)
Max(a, b) == IF a >= b THEN a ELSE b
Min(a, b) == IF a <= b THEN a ELSE b
\* Math.ceil(a / b) for a >= 0, b >= 1
Ceil(a, b) == (a + b - 1) \div b

\* String(n) and Number(s) for the version stored under 'orders:ver'
String(n) == <<n>>
Number(s) == s[1]
Truthy(s) == s # Null

\* JSON.stringify / JSON.parse of a listing payload
JSONstringify(v) == <<"json", v>>
JSONparse(s) == s[2]

\* the users of the seed
UserRow(u) ==
  CASE u = 1 -> [name |-> <<"J", "o">>, email |-> <<"j", "o", "@">>]
    [] OTHER -> [name |-> <<"J", "a">>, email |-> <<"j", "a", "@">>]

\* contains, mode: 'insensitive'
Lower(c) == CASE c = "J" -> "j" [] c = "O" -> "o" [] c = "A" -> "a" [] c = "Z" -> "z" [] OTHER -> c
Contains(hay, needle) ==
  \E k \in 0..(Len(hay) - Len(needle)) :
    \A j \in 1..Len(needle) : Lower(hay[k + j]) = Lower(needle[j])

\* a faulty variant of the check below, which lets an empty list through
BadRequest_EmptyAllowed(b) == b.userId = 0 \/ ~IsArray(b.items)

\* !userId || !Array.isArray(items) || items.length === 0
BadRequest(b) == b.userId = 0 \/ ~IsArray(b.items) \/ Len(b.items) = 0

\* prisma.product.findMany({ where: { id: { in: productIds } } })
\* quantities of a request line that are not numbers: the field is absent
\* (Undefined), or a text that is no numeral (Word); NaN is what Number()
\* makes of the latter
Undefined == 0 - 98
Word == 0 - 97
NaN == 0 - 99
\* Number(item.quantity || 0)
NumberOrZero(x) ==
  LET v == IF x = Undefined THEN 0 ELSE x
  IN IF v = Word THEN NaN ELSE v
\* <, + and * of JavaScript numbers: NaN compares false and absorbs
Lt(a, b) == a # NaN /\ b # NaN /\ a < b
Plus(a, b) == IF a = NaN \/ b = NaN THEN NaN ELSE a + b
Times(a, b) == IF a = NaN \/ b = NaN THEN NaN ELSE a * b
\* the store's columns for quantity and total hold numbers only
Storable(ttl, data) == ttl # NaN /\ \A i \in DOMAIN data : data[i].quantity # NaN

FoundProducts(items) == {items[i].productId : i \in DOMAIN items} \cap Products

\* the validation loop of POST /orders over the products just loaded
RECURSIVE ValidateFrom(_, _, _, _, _)
ValidateFrom(items, i, stk, prc, acc) ==
  IF i > Len(items) THEN acc
  ELSE LET item == items[i]
           q == NumberOrZero(item.quantity)
       IN IF item.productId \notin Products THEN [acc EXCEPT !.status = 404]
          ELSE IF Lt(q, 1) THEN [acc EXCEPT !.status = 400]
          ELSE IF Lt(stk[item.productId], q) THEN [acc EXCEPT !.status = 400]
          ELSE ValidateFrom(items, i + 1, stk, prc,
                 [status |-> 0,
                  total |-> Plus(acc.total, Times(prc[item.productId], q)),
                  data |-> Append(acc.data,
                             [productId |-> item.productId, quantity |-> q,
                              price |-> prc[item.productId]])])

\* a faulty variant of the validation, which totals the first line only
Validate_FirstLineTotal(items, stk, prc) ==
  IF Cardinality(FoundProducts(items)) # Len(items)
  THEN [status |-> 404, total |-> 0, data |-> <<>>]
  ELSE LET v == ValidateFrom(items, 1, stk, prc, [status |-> 0, total |-> 0, data |-> <<>>])
       IN [v EXCEPT !.total = IF v.data = <<>> THEN 0 ELSE v.data[1].price * v.data[1].quantity]

\* a faulty variant of the validation, which keeps the first line only
Validate_FirstLineOnly(items, stk, prc) ==
  IF Cardinality(FoundProducts(items)) # Len(items)
  THEN [status |-> 404, total |-> 0, data |-> <<>>]
  ELSE LET v == ValidateFrom(items, 1, stk, prc, [status |-> 0, total |-> 0, data |-> <<>>])
       IN [v EXCEPT !.data = SubSeq(v.data, 1, Min(1, Len(v.data)))]

Validate(items, stk, prc) ==
  IF Cardinality(FoundProducts(items)) # Len(items)
  THEN [status |-> 404, total |-> 0, data |-> <<>>]
  ELSE ValidateFrom(items, 1, stk, prc, [status |-> 0, total |-> 0, data |-> <<>>])

\* a faulty variant of the loop below, which applies the first line only
Decrement_FirstLineOnly(stk, items, n) ==
  IF n = 0 THEN stk
  ELSE [stk EXCEPT ![items[1].productId] = @ - items[1].quantity]

\* a faulty variant of the loop below, which takes the first line's quantity
\* from every product
Decrement_EveryProduct(stk, items, n) ==
  IF n = 0 THEN stk
  ELSE [p \in DOMAIN stk |-> stk[p] - items[1].quantity]

\* a faulty variant of the loop below, which takes one unit for every line
Decrement_OneUnit(stk, items, n) ==
  [p \in DOMAIN stk |-> stk[p] - Cardinality({i \in 1..n : items[i].productId = p})]

\* the loop of tx.product.update({ data: { stock: { decrement: quantity } } })
RECURSIVE Decrement(_, _, _)
Decrement(stk, items, n) ==
  IF n = 0 THEN stk
  ELSE LET s == Decrement(stk, items, n - 1)
           it == items[n]
       IN [s EXCEPT ![it.productId] = @ - it.quantity]

\* a faulty variant of the handler's order of steps, which bumps the version
\* right after the checks
AfterChecks_Bump == "bump"
\* what follows the validation loop: prisma.$transaction
AfterChecks == "txCreate"

InTx(r) == ppc[r] \in {"txUpdate", "txCommit"}
\* product rows locked by the open transaction of r
Locked(r) == IF InTx(r) THEN {body[r].items[i].productId : i \in 1..txDone[r]} ELSE {}
LockedByOther(r, p) == \E r2 \in PostReqs \ {r} : p \in Locked(r2)
\* the requests holding the row that the next tx.product.update of r needs
WaitsOn(r) ==
  IF ppc[r] = "txUpdate"
  THEN {r2 \in PostReqs \ {r} : body[r].items[txDone[r] + 1].productId \in Locked(r2)}
  ELSE {}
RECURSIVE Blockers(_, _)
Blockers(S, n) == IF n = 0 THEN S ELSE Blockers(S \cup UNION {WaitsOn(x) : x \in S}, n - 1)
\* r waits, directly or not, for a transaction that waits for r
Deadlocked(r) == r \in Blockers(WaitsOn(r), NumPosts)

\* a faulty variant of the rollback, which keeps the updates already made
StockAfterAbort_Kept(r) == Decrement(stock, body[r].items, txDone[r])
\* what the store shows once the transaction of r has rolled back
StockAfterAbort(r) == stock
\* a faulty variant of the rollback below, which empties the order table
OrdersAfterAbort_Empty(r) == <<>>
OrdersAfterAbort(r) == orders

\* parseInt(req.query.x || dflt, 10), Math.max(1, ..)
ParseInt(raw, dflt) == IF raw = Absent THEN dflt ELSE raw[1]
ParseQuery(q) ==
  [page |-> Max(1, ParseInt(q.page, DefaultPage)),
   limit |-> Max(1, ParseInt(q.limit, DefaultLimit)),
   search |-> q.search]

\* `${n}` of a number n >= 0: its decimal numeral, as characters
DigitChars == <<"0", "1", "2", "3", "4", "5", "6", "7", "8", "9">>
RECURSIVE Numeral(_)
Numeral(n) ==
  IF n < 10 THEN <<DigitChars[n + 1]>>
  ELSE Numeral(n \div 10) \o <<DigitChars[(n % 10) + 1]>>

\* a faulty variant of the key below, which leaves the search out
buildOrdersKey_NoSearch(page, limit, search, ver) ==
  <<"o", "r", "d", "e", "r", "s", ":", "v">> \o Numeral(ver)
    \o <<":", "p", "a", "g", "e", "=">> \o Numeral(page)
    \o <<"&", "l", "i", "m", "i", "t", "=">> \o Numeral(limit)

\* `orders:v${ver}:page=${page}&limit=${limit}&search=${search || ''}`, as
\* the characters of the string
buildOrdersKey(page, limit, search, ver) ==
  <<"o", "r", "d", "e", "r", "s", ":", "v">> \o Numeral(ver)
    \o <<":", "p", "a", "g", "e", "=">> \o Numeral(page)
    \o <<"&", "l", "i", "m", "i", "t", "=">> \o Numeral(limit)
    \o <<"&", "s", "e", "a", "r", "c", "h", "=">> \o search

\* the where clause: no filter for an empty search, else the order's user
\* has the search in its name or its email
Where(o, search) ==
  \/ search = NoSearch
  \/ Contains(UserRow(o.userId).name, search)
  \/ Contains(UserRow(o.userId).email, search)

\* orderBy: { createdAt: 'desc' }: newest first
RECURSIVE SortDesc(_)
SortDesc(os) ==
  IF os = <<>> THEN <<>>
  ELSE LET m == CHOOSE i \in DOMAIN os : \A j \in DOMAIN os : os[j].createdAt <= os[i].createdAt
       IN <<os[m]>> \o SortDesc(SubSeq(os, 1, m - 1) \o SubSeq(os, m + 1, Len(os)))

Matching(os, search) == SelectSeq(os, LAMBDA o : Where(o, search))

\* a faulty variant of the query below, which skips nothing
FindMany_NoSkip(os, search, skip, take) ==
  LET sorted == SortDesc(Matching(os, search))
  IN SubSeq(sorted, 1, Min(take, Len(sorted)))

\* prisma.order.findMany({ where, skip, take, orderBy })
FindMany(os, search, skip, take) ==
  LET sorted == SortDesc(Matching(os, search))
  IN SubSeq(sorted, skip + 1, Min(skip + take, Len(sorted)))

\* prisma.order.count({ where })
Count(os, search) == Len(Matching(os, search))

\* a faulty variant of the payload, without the floor of one page
Payload_NoFloor(page, limit, rows, cnt) ==
  [data |-> rows,
   pagination |-> [page |-> page, limit |-> limit, total |-> cnt,
                   totalPages |-> Ceil(cnt, limit)]]

Payload(page, limit, rows, cnt) ==
  [data |-> rows,
   pagination |-> [page |-> page, limit |-> limit, total |-> cnt,
                   totalPages |-> Max(1, Ceil(cnt, limit))]]

\* redisClient.get(key): the value of an unexpired entry, else null
Lookup_AlwaysMiss(key) == Null
Lookup(key) ==
  IF key \in DOMAIN cache /\ now < cache[key].exp THEN cache[key].val ELSE Null

\* asOf is history: the number of committed orders the rows were read from
IdleGet ==
  [pc |-> "idle", inst |-> 1, page |-> 0, limit |-> 0, search |-> NoSearch, ver |-> 0,
   read |-> {}, orders |-> <<>>, total |-> 0, status |-> 0, resp |-> Null, asOf |-> 0]
\* history of a GET: where the answer came from (src), whether a Redis call
\* threw (cacheFault), and, as of its start: the number of committed orders
\* whose POST had answered 201 (acked), those of them committed at least a
\* TTL earlier (aged), the highest version a completed bump had reached (floor)
IdleGetHist == [src |-> "", cacheFault |-> FALSE, acked |-> 0, aged |-> 0, floor |-> 0]

(* ------------------------------- Init --------------------------------- *)
SetMax(S) == CHOOSE x \in S : \A y \in S : y <= x

\* the service with stock stk for every product, Redis configured on the
\* instances of `client` and connected on those of `ready`, the orders os
\* in the store, ORDERS_VER ver on the instances and rv under 'orders:ver'
InitAt(stk, client, ready, os, ver, rv) ==
  /\ stock = [p \in Products |-> stk]
  /\ price = [p \in Products |-> p]
  /\ orders = os
  /\ nextId = Len(os) + 1
  /\ ppc = [r \in PostReqs |-> "idle"]
  /\ pinst = [r \in PostReqs |-> 1]
  /\ body = [r \in PostReqs |-> [userId |-> 0, items |-> <<>>]]
  /\ total = [r \in PostReqs |-> 0]
  /\ orderItemsData = [r \in PostReqs |-> <<>>]
  /\ created = [r \in PostReqs |-> None]
  /\ txDone = [r \in PostReqs |-> 0]
  /\ setVal = [r \in PostReqs |-> Null]
  /\ pstatus = [r \in PostReqs |-> 0]
  /\ queue = {}
  /\ ORDERS_VER = ver
  /\ redisClient = [i \in Instances |-> i \in client]
  /\ redisReady = [i \in Instances |-> i \in ready]
  /\ redisVer = rv
  /\ redisQueue = [i \in Instances |-> <<>>]
  /\ cache = <<>>
  /\ now = 0
  /\ get = [g \in GetReqs |-> IdleGet]
  /\ initStock = stock
  /\ ph = [r \in PostReqs |->
             [txStart |-> stock, preStock |-> stock, postStock |-> stock,
              rolledBack |-> 0, bumps |-> 0, commitTime |-> 0, commitPrice |-> price,
              accessed |-> FALSE, attempts |-> 0, conflict |-> FALSE, bumpedTo |-> 0]]
  /\ gh = [g \in GetReqs |-> [IdleGetHist EXCEPT !.floor = SetMax({ver[i] : i \in Instances})]]

\* the same before any request
InitFrom(stk, client, ready, os) ==
  InitAt(stk, client, ready, os, [i \in Instances |-> InitialVer], Null)

InitWith(stk, client, ready) == InitFrom(stk, client, ready, <<>>)

\* n orders placed earlier, by the users in turn, one unit of product 1 each
Seeded(n) ==
  [i \in 1..n |->
     [id |-> i, createdAt |-> i, userId |-> 1 + (i % NumUsers), total |-> 1,
      orderItems |-> <<[productId |-> 1, quantity |-> 1, price |-> 1]>>, req |-> 0]]

\* the state after construction: connect() is still pending
Init == \E s \in 1..MaxStock, client \in SUBSET Instances : InitWith(s, client, {})

(* ------------------------ Redis connection, time ---------------------- *)
\* redisClient.connect().then(() => { redisReady = true })
RedisConnect(i) ==
  /\ redisClient[i] /\ ~redisReady[i]
  /\ redisReady' = [redisReady EXCEPT ![i] = TRUE]
  /\ UNCHANGED <<storeVars, postVars, cacheVars, get, histVars, ORDERS_VER, redisClient, redisVer,
                 redisQueue>>

\* time passes; Redis drops the entries whose TTL has run out
Tick ==
  /\ now < MaxTicks * TickStep
  /\ now' = now + TickStep
  /\ cache' = [k \in {x \in DOMAIN cache : now' < cache[x].exp} |-> cache[k]]
  /\ UNCHANGED <<storeVars, postVars, verVars, get, histVars>>

\* another client of the store (the storefront's back office) writes the
\* price of a product
PriceChange ==
  /\ \E p \in Products : \E v \in Prices \ {price[p]} : price' = [price EXCEPT ![p] = v]
  /\ UNCHANGED <<stock, orders, nextId, postVars, verVars, cacheVars, get, histVars>>

(* ----------------------------- POST /orders --------------------------- *)
Answer(r, code) ==
  /\ ppc' = [ppc EXCEPT ![r] = "done"]
  /\ pstatus' = [pstatus EXCEPT ![r] = code]

\* the transaction throws: everything it did is rolled back, the handler's
\* catch answers 500
Abort(r) ==
  /\ Answer(r, 500)
  /\ stock' = StockAfterAbort(r)
  /\ orders' = OrdersAfterAbort(r)
  /\ created' = [created EXCEPT ![r] = None]
  /\ txDone' = [txDone EXCEPT ![r] = 0]
  /\ ph' = [ph EXCEPT ![r].rolledBack = txDone[r]]

PostStart(r, E) ==
  /\ ppc[r] = "idle"
  /\ \E b \in E.bodies, i \in E.postInsts[r] :
       /\ body' = [body EXCEPT ![r] = b]
       /\ pinst' = [pinst EXCEPT ![r] = i]
       /\ IF BadRequest(b)
          THEN Answer(r, 400)
          ELSE /\ ppc' = [ppc EXCEPT ![r] = "findUser"]
               /\ UNCHANGED pstatus
  /\ UNCHANGED <<storeVars, verVars, cacheVars, get, histVars,
                 total, orderItemsData, created, txDone, setVal, queue>>

PostFindUser(r, E) ==
  /\ ppc[r] = "findUser"
  /\ \E fault \in E.storeFaults :
       IF fault THEN Answer(r, 500)
       ELSE IF body[r].userId \notin Users THEN Answer(r, 404)
       ELSE /\ ppc' = [ppc EXCEPT ![r] = "findProducts"]
            /\ UNCHANGED pstatus
  /\ ph' = [ph EXCEPT ![r].accessed = TRUE]
  /\ UNCHANGED <<storeVars, verVars, cacheVars, get, initStock, gh,
                 pinst, body, total, orderItemsData, created, txDone, setVal, queue>>

PostFindProducts(r, E) ==
  /\ ppc[r] = "findProducts"
  /\ \E fault \in E.storeFaults :
       LET v == Validate(body[r].items, stock, price) IN
       IF fault THEN Answer(r, 500) /\ UNCHANGED <<total, orderItemsData>>
       ELSE IF v.status # 0 THEN Answer(r, v.status) /\ UNCHANGED <<total, orderItemsData>>
       ELSE /\ ppc' = [ppc EXCEPT ![r] = AfterChecks]
            /\ total' = [total EXCEPT ![r] = v.total]
            /\ orderItemsData' = [orderItemsData EXCEPT ![r] = v.data]
            /\ UNCHANGED pstatus
  /\ UNCHANGED <<storeVars, verVars, cacheVars, get, histVars,
                 pinst, body, created, txDone, setVal, queue>>

\* the transaction opens: tx.order.create({ data: { userId, total,
\* orderItems: { create: orderItemsData } } }); the store refuses a value
\* that is not a number
PostTxCreate(r, E) ==
  /\ ppc[r] = "txCreate"
  /\ \E fault \in E.storeFaults :
       IF fault \/ ~Storable(total[r], orderItemsData[r])
       THEN Abort(r) /\ UNCHANGED nextId
       ELSE /\ created' = [created EXCEPT ![r] =
                 [id |-> nextId, createdAt |-> nextId, userId |-> body[r].userId,
                  total |-> total[r], orderItems |-> orderItemsData[r], req |-> r]]
            /\ nextId' = nextId + 1
            /\ txDone' = [txDone EXCEPT ![r] = 0]
            /\ ppc' = [ppc EXCEPT ![r] = "txUpdate"]
            /\ ph' = [ph EXCEPT ![r].txStart = stock, ![r].attempts = @ + 1]
            /\ UNCHANGED <<stock, orders, pstatus>>
  /\ UNCHANGED <<price, verVars, cacheVars, get, initStock, gh,
                 pinst, body, total, orderItemsData, setVal, queue>>

\* one tx.product.update of the loop: waits for the row's lock
PostTxUpdate(r, E) ==
  /\ ppc[r] = "txUpdate"
  /\ \E fault \in E.storeFaults :
       IF fault
       THEN Abort(r)
       ELSE /\ ~LockedByOther(r, body[r].items[txDone[r] + 1].productId)
            /\ txDone' = [txDone EXCEPT ![r] = @ + 1]
            /\ ppc' = [ppc EXCEPT ![r] =
                 IF txDone[r] + 1 = Len(body[r].items) THEN "txCommit" ELSE "txUpdate"]
            /\ UNCHANGED <<stock, orders, created, pstatus, ph>>
  /\ UNCHANGED <<price, nextId, verVars, cacheVars, get, initStock, gh,
                 pinst, body, total, orderItemsData, setVal, queue>>

\* PostgreSQL finds r waiting in a cycle of row locks and aborts its
\* transaction (deadlock detected): the update throws, the catch answers 500
PostTxDeadlock(r) ==
  /\ ppc[r] = "txUpdate"
  /\ Deadlocked(r)
  /\ Answer(r, 500)
  /\ stock' = StockAfterAbort(r)
  /\ orders' = OrdersAfterAbort(r)
  /\ created' = [created EXCEPT ![r] = None]
  /\ txDone' = [txDone EXCEPT ![r] = 0]
  /\ ph' = [ph EXCEPT ![r].rolledBack = txDone[r], ![r].conflict = TRUE]
  /\ UNCHANGED <<price, nextId, verVars, cacheVars, get, initStock, gh,
                 pinst, body, total, orderItemsData, setVal, queue>>

\* the transaction's callback returned: COMMIT
PostTxCommit(r, E) ==
  /\ ppc[r] = "txCommit"
  /\ \E fault \in E.storeFaults :
       IF fault
       THEN Abort(r)
       ELSE /\ stock' = Decrement(stock, body[r].items, Len(body[r].items))
            /\ orders' = Append(orders, created[r])
            /\ ph' = [ph EXCEPT ![r].preStock = stock, ![r].postStock = stock',
                                ![r].commitTime = now, ![r].commitPrice = price]
            /\ ppc' = [ppc EXCEPT ![r] = "bump"]
            /\ UNCHANGED <<created, txDone, pstatus>>
  /\ UNCHANGED <<price, nextId, verVars, cacheVars, get, initStock, gh,
                 pinst, body, total, orderItemsData, setVal, queue>>

\* console.log('Queue: confirm_order', ...); res.status(201).json(order)
Finish(r) ==
  /\ queue' = queue \cup {[orderId |-> created[r].id,
                           userEmail |-> UserRow(body[r].userId).email,
                           total |-> created[r].total]}
  /\ Answer(r, 201)

\* bumpOrdersVer() up to its await
PostBump(r) ==
  /\ ppc[r] = "bump"
  /\ ORDERS_VER' = [ORDERS_VER EXCEPT ![pinst[r]] = @ + 1]
  /\ ph' = [ph EXCEPT ![r].bumps = @ + 1, ![r].bumpedTo = ORDERS_VER'[pinst[r]]]
  /\ IF redisClient[pinst[r]] /\ redisReady[pinst[r]]
     THEN /\ setVal' = [setVal EXCEPT ![r] = String(ORDERS_VER'[pinst[r]])]
          /\ redisQueue' = [redisQueue EXCEPT ![pinst[r]] = Append(@, <<"post", r>>)]
          /\ ppc' = [ppc EXCEPT ![r] = "bumpSet"]
          /\ UNCHANGED <<pstatus, queue>>
     ELSE Finish(r) /\ UNCHANGED <<setVal, redisQueue>>
  /\ UNCHANGED <<storeVars, cacheVars, get, initStock, gh, redisClient, redisReady, redisVer,
                 pinst, body, total, orderItemsData, created, txDone>>

\* Redis executes set('orders:ver', ..) and the handler resumes; the
\* commands of one client are executed in the order they were sent
PostBumpSet(r, E) ==
  /\ ppc[r] = "bumpSet"
  /\ Head(redisQueue[pinst[r]]) = <<"post", r>>
  /\ redisQueue' = [redisQueue EXCEPT ![pinst[r]] = Tail(@)]
  /\ \E fault \in E.redisFaults :
       IF fault
       THEN Answer(r, 500) /\ UNCHANGED <<redisVer, queue>>
       ELSE redisVer' = setVal[r] /\ Finish(r)
  /\ UNCHANGED <<storeVars, cacheVars, get, initStock, ph, gh, ORDERS_VER, redisClient, redisReady,
                 pinst, body, total, orderItemsData, created, txDone, setVal>>

Post(r, E) ==
  \/ PostStart(r, E)
  \/ PostFindUser(r, E)
  \/ PostFindProducts(r, E)
  \/ PostTxCreate(r, E)
  \/ PostTxUpdate(r, E)
  \/ PostTxCommit(r, E)
  \/ PostBump(r)
  \/ PostBumpSet(r, E)

(* ------------------------------ GET /orders --------------------------- *)
\* the length of the shortest prefix of the committed orders that holds every
\* order of the requests in R
RECURSIVE PrefixWith(_, _)
PrefixWith(os, R) ==
  IF os = <<>> THEN 0
  ELSE IF os[Len(os)].req \in R THEN Len(os)
  ELSE PrefixWith(SubSeq(os, 1, Len(os) - 1), R)

\* res.json(payload)
Respond(g, rec, payload, src) ==
  /\ get' = [get EXCEPT ![g] = [rec EXCEPT !.pc = "done", !.status = 200,
                                           !.resp = JSONstringify(payload)]]
  /\ gh' = [gh EXCEPT ![g].src = src]

\* the handler's catch: res.status(500)
Fail(g, byCache) ==
  /\ get' = [get EXCEPT ![g].pc = "done", ![g].status = 500]
  /\ gh' = [gh EXCEPT ![g].cacheFault = byCache]

\* the Redis client of an instance sends its commands on one connection and
\* Redis executes them in the order sent
Sent(g) == redisQueue' = [redisQueue EXCEPT ![get[g].inst] = Append(@, <<"get", g>>)]
Executed(g) == redisQueue' = [redisQueue EXCEPT ![get[g].inst] = Tail(@)]
IsNext(g) == Head(redisQueue[get[g].inst]) = <<"get", g>>

GetStart(g, E) ==
  /\ get[g].pc = "idle"
  /\ \E raw \in E.queries, i \in E.getInsts[g] :
       LET q == ParseQuery(raw)
           useRedis == redisClient[i] /\ redisReady[i]
       IN /\ get' = [get EXCEPT ![g] =
                 [@ EXCEPT !.inst = i, !.page = q.page, !.limit = q.limit, !.search = q.search,
                           !.ver = IF useRedis THEN 0 ELSE ORDERS_VER[i],
                           !.pc = IF useRedis THEN "getVer" ELSE "query"]]
          /\ redisQueue' = IF useRedis
                            THEN [redisQueue EXCEPT ![i] = Append(@, <<"get", g>>)]
                            ELSE redisQueue
          /\ gh' = [gh EXCEPT
                 ![g].acked = PrefixWith(orders, {r \in PostReqs : pstatus[r] = 201}),
                 ![g].aged = PrefixWith(orders, {r \in PostReqs :
                                 pstatus[r] = 201 /\ ph[r].commitTime + TTL <= now}),
                 ![g].floor = SetMax({@} \cup {ph[r].bumpedTo :
                                                r \in {x \in PostReqs : pstatus[x] = 201}})]
  /\ UNCHANGED <<storeVars, postVars, ORDERS_VER, redisClient, redisReady, redisVer,
                 cacheVars, initStock, ph>>

\* getOrdersVer(): Redis answers get('orders:ver') and the handler resumes
GetVer(g, E) ==
  /\ get[g].pc = "getVer"
  /\ IsNext(g)
  /\ \E fault \in E.redisFaults :
       IF fault
       THEN Fail(g, TRUE) /\ Executed(g) /\ UNCHANGED ORDERS_VER
       ELSE LET i == get[g].inst
                v == redisVer
                ver == IF Truthy(v) THEN Number(v) ELSE ORDERS_VER[i]
            IN /\ ORDERS_VER' = [ORDERS_VER EXCEPT ![i] = ver]
               /\ get' = [get EXCEPT ![g].ver = ver, ![g].pc = "cacheGet"]
               /\ redisQueue' = [redisQueue EXCEPT ![i] = Append(Tail(@), <<"get", g>>)]
               /\ UNCHANGED gh
  /\ UNCHANGED <<storeVars, postVars, cacheVars, initStock, ph,
                 redisClient, redisReady, redisVer>>

\* Redis answers get(cacheKey)
GetCacheGet(g, E) ==
  /\ get[g].pc = "cacheGet"
  /\ IsNext(g)
  /\ Executed(g)
  /\ \E fault \in E.redisFaults :
       IF fault
       THEN Fail(g, TRUE)
       ELSE LET key == buildOrdersKey(get[g].page, get[g].limit, get[g].search, get[g].ver)
                cached == Lookup(key)
            IN IF cached # Null
               THEN Respond(g, [get[g] EXCEPT !.asOf = cache[key].asOf], JSONparse(cached), "hit")
               ELSE /\ get' = [get EXCEPT ![g].pc = "query"]
                    /\ UNCHANGED gh
  /\ UNCHANGED <<storeVars, postVars, ORDERS_VER, redisClient, redisReady, redisVer,
                 cacheVars, initStock, ph>>

\* both queries of the Promise.all have answered: build the payload, then
\* setEx if Redis is ready, else answer
AfterQuery(g, rec) ==
  IF rec.read # {"rows", "count"}
  THEN get' = [get EXCEPT ![g] = rec] /\ UNCHANGED <<gh, redisQueue>>
  ELSE IF redisClient[rec.inst] /\ redisReady[rec.inst]
  THEN get' = [get EXCEPT ![g] = [rec EXCEPT !.pc = "setEx"]] /\ Sent(g) /\ UNCHANGED gh
  ELSE /\ Respond(g, rec, Payload(rec.page, rec.limit, rec.orders, rec.total), "miss")
       /\ UNCHANGED redisQueue

\* prisma.order.findMany answers
GetFindMany(g, E) ==
  /\ get[g].pc = "query" /\ "rows" \notin get[g].read
  /\ \E fault \in E.storeFaults :
       IF fault
       THEN Fail(g, FALSE) /\ UNCHANGED redisQueue
       ELSE AfterQuery(g, [get[g] EXCEPT
              !.orders = FindMany(orders, get[g].search,
                                  (get[g].page - 1) * get[g].limit, get[g].limit),
              !.read = @ \cup {"rows"}, !.asOf = Len(orders)])
  /\ UNCHANGED <<storeVars, postVars, ORDERS_VER, redisClient, redisReady, redisVer,
                 cacheVars, initStock, ph>>

\* prisma.order.count answers
GetCount(g, E) ==
  /\ get[g].pc = "query" /\ "count" \notin get[g].read
  /\ \E fault \in E.storeFaults :
       IF fault
       THEN Fail(g, FALSE) /\ UNCHANGED redisQueue
       ELSE AfterQuery(g, [get[g] EXCEPT !.total = Count(orders, get[g].search),
                                         !.read = @ \cup {"count"}])
  /\ UNCHANGED <<storeVars, postVars, ORDERS_VER, redisClient, redisReady, redisVer,
                 cacheVars, initStock, ph>>

\* Redis executes setEx(cacheKey, 30, JSON.stringify(payload)); res.json(payload)
GetSetEx(g, E) ==
  /\ get[g].pc = "setEx"
  /\ IsNext(g)
  /\ Executed(g)
  /\ \E fault \in E.redisFaults :
       IF fault
       THEN Fail(g, TRUE) /\ UNCHANGED cache
       ELSE LET key == buildOrdersKey(get[g].page, get[g].limit, get[g].search, get[g].ver)
                payload == Payload(get[g].page, get[g].limit, get[g].orders, get[g].total)
                entry == [val |-> JSONstringify(payload), exp |-> now + TTL,
                          asOf |-> get[g].asOf]
            IN /\ cache' = [k \in DOMAIN cache \cup {key} |->
                              IF k = key THEN entry ELSE cache[k]]
               /\ Respond(g, get[g], payload, "miss")
  /\ UNCHANGED <<storeVars, postVars, ORDERS_VER, redisClient, redisReady, redisVer,
                 now, initStock, ph>>

Get(g, E) ==
  \/ GetStart(g, E)
  \/ GetVer(g, E)
  \/ GetCacheGet(g, E)
  \/ GetFindMany(g, E)
  \/ GetCount(g, E)
  \/ GetSetEx(g, E)

(* --------------------------- specifications --------------------------- *)
\* what the clients and the environment of a run may do: the request bodies
\* and query strings sent, the instances that may serve each POST and the
\* GETs, and whether calls to the store and to Redis may throw
Env(B, Q, PI, GI, SF, RF) ==
  [bodies |-> B, queries |-> Q, postInsts |-> PI, getInsts |-> GI,
   storeFaults |-> SF, redisFaults |-> RF]

FirstPage == Query(Absent, Absent, NoSearch)

\* the service from its start: one placement of one unit, two listings of
\* the first page, Redis calls may throw
AnyInst == [r \in PostReqs |-> Instances]
GetsOn(S) == [g \in GetReqs |-> S]
SpecEnv == Env({OneUnitOf(1)}, {FirstPage}, AnyInst, GetsOn(Instances), {FALSE}, BOOLEAN)
InitSpec == InitWith(MaxStock, Instances, {})
Next ==
  \/ \E r \in 1..1 : Post(r, SpecEnv)
  \/ \E g \in GetReqs : Get(g, SpecEnv)
  \/ \E i \in Instances : RedisConnect(i)

Spec == InitSpec /\ [][Next]_vars

\* placements alone, with every request body, on one server instance, any
\* call may throw
PlaceEnv == Env(Bodies, {}, [r \in PostReqs |-> {1}], GetsOn({}), BOOLEAN, BOOLEAN)
InitPlace == \E s \in 1..MaxStock, client \in SUBSET {1} : InitWith(s, client, {})
NextPlace ==
  \/ \E r \in PostReqs : Post(r, PlaceEnv)
  \/ \E r \in PostReqs : PostTxDeadlock(r)
  \/ RedisConnect(1)

SpecPlace == InitPlace /\ [][NextPlace]_vars

\* every instance connected to Redis, no call throws: two placements on any
\* instance, two listings on instance 1
HealthyEnv == Env({OneUnitOf(1)}, {FirstPage}, AnyInst, GetsOn({1}), {FALSE}, {FALSE})
InitHealthy == InitWith(MaxStock, Instances, Instances)
NextHealthy ==
  \/ \E r \in 1..2 : Post(r, HealthyEnv)
  \/ \E g \in GetReqs : Get(g, HealthyEnv)

SpecHealthy == InitHealthy /\ [][NextHealthy]_vars

\* two instances after instance 1 has placed one order (ORDERS_VER 2 there,
\* '2' under 'orders:ver'); placement r is served by instance r, the
\* listings by instance 1
VersionsEnv == Env({OneUnitOf(1)}, {FirstPage}, [r \in PostReqs |-> {Min(r, NumInst)}],
                   GetsOn({1}), {FALSE}, {FALSE})
InitVersions ==
  InitAt(MaxStock, Instances, Instances, Seeded(1),
         [i \in Instances |-> IF i = 1 THEN InitialVer + 1 ELSE InitialVer],
         String(InitialVer + 1))
NextVersions ==
  \/ \E r \in PostReqs : Post(r, VersionsEnv)
  \/ \E g \in GetReqs : Get(g, VersionsEnv)

SpecVersions == InitVersions /\ [][NextVersions]_vars

\* the same with time passing, placement r served by instance r
TTLEnv == Env({OneUnitOf(1)}, {FirstPage}, [r \in PostReqs |-> {Min(r, NumInst)}], GetsOn({1}),
              {FALSE}, {FALSE})
NextTTL ==
  \/ \E r \in 1..2 : Post(r, TTLEnv)
  \/ \E g \in GetReqs : Get(g, TTLEnv)
  \/ Tick

SpecTTL == InitHealthy /\ [][NextTTL]_vars

\* placements while prices change: one request with any body on instance 1,
\* no call throws
PriceEnv == Env(Bodies, {}, [r \in PostReqs |-> {1}], GetsOn({}), {FALSE}, {FALSE})
NextPrice ==
  \/ \E r \in 1..1 : Post(r, PriceEnv)
  \/ PriceChange
  \/ RedisConnect(1)

SpecPrice == InitPlace /\ [][NextPrice]_vars

\* listings over a store that holds orders already: one placement and two
\* listings with any query on instance 1, Redis connected, no call throws
ListEnv == Env({OneUnitOf(1)}, Queries, [r \in PostReqs |-> {1}], GetsOn({1}), {FALSE}, {FALSE})
InitList == \E n \in {0, MaxSeeded} : InitFrom(MaxStock, Instances, Instances, Seeded(n))
NextList ==
  \/ \E r \in 1..1 : Post(r, ListEnv)
  \/ \E g \in GetReqs : Get(g, ListEnv)

SpecList == InitList /\ [][NextList]_vars

\* one instance over a store that holds one order already: one placement,
\* two listings of the first page, the price of a product may be rewritten,
\* any call may throw
FrameEnv == Env({OneUnitOf(1)}, {FirstPage}, [r \in PostReqs |-> {1}], GetsOn({1}),
                BOOLEAN, BOOLEAN)
InitFrame == InitFrom(MaxStock, {1}, {}, Seeded(1))
NextFrame ==
  \/ \E r \in 1..1 : Post(r, FrameEnv)
  \/ \E g \in GetReqs : Get(g, FrameEnv)
  \/ PriceChange
  \/ RedisConnect(1)

SpecFrame == InitFrame /\ [][NextFrame]_vars

\* listings whose keys are close: pages and limits 1 and 11, no search, a
\* search that is a numeral and one that reads like the rest of a key; two
\* orders in the store, one placement, instance 1, no call throws
KeyQueries ==
  {Query(p, l, s) : p \in {Absent, <<11>>}, l \in {<<1>>, <<11>>},
                    s \in {NoSearch, <<"1">>, <<"j", "&", "s", "e", "a", "r", "c", "h", "=">>}}
KeyEnv == Env({OneUnitOf(1)}, KeyQueries, [r \in PostReqs |-> {1}], GetsOn({1}),
              {FALSE}, {FALSE})
InitKey == InitFrom(MaxStock, Instances, Instances, Seeded(NumUsers))
NextKey ==
  \/ \E r \in 1..1 : Post(r, KeyEnv)
  \/ \E g \in GetReqs : Get(g, KeyEnv)

SpecKey == InitKey /\ [][NextKey]_vars

\* placements with quantities of every kind: one line of product 1, or one
\* unit of product 1 and a line of product 2; instance 1, no call throws
QtyBodies ==
  {[userId |-> 1, items |-> its] : its \in
     {<<Line(1, q)>> : q \in (0 - 1)..MaxQty \cup {Undefined, Word}}
     \cup {<<Line(1, 1), Line(2, q)>> : q \in (0 - 1)..MaxQty \cup {Undefined, Word}}}
QtyEnv == Env(QtyBodies, {}, [r \in PostReqs |-> {1}], GetsOn({}), {FALSE}, {FALSE})
NextQty ==
  \/ \E r \in PostReqs : Post(r, QtyEnv)
  \/ RedisConnect(1)

SpecQty == InitPlace /\ [][NextQty]_vars

\* placements side by side: two requests with any body on instance 1, no
\* call throws
PairEnv == Env(Bodies, {}, [r \in PostReqs |-> {1}], GetsOn({}), {FALSE}, {FALSE})
NextPair ==
  \/ \E r \in PostReqs : Post(r, PairEnv)
  \/ \E r \in PostReqs : PostTxDeadlock(r)
  \/ RedisConnect(1)

SpecPair == InitPlace /\ [][NextPair]_vars

(* ======================= placement: properties ======================== *)
Done(r) == ppc[r] = "done"
\* the transaction of r has committed
Committed(r) == \E i \in DOMAIN orders : orders[i].req = r
\* a store or Redis call of r threw
Faulted(r) == Done(r) /\ pstatus[r] = 500

\* quantity the lines of a request ask of product p
RECURSIVE QtyOf(_, _)
QtyOf(items, p) ==
  IF items = <<>> THEN 0
  ELSE (IF Head(items).productId = p THEN Head(items).quantity ELSE 0) + QtyOf(Tail(items), p)

\* quantity of product p sold by the committed orders
RECURSIVE Sold(_, _)
Sold(os, p) == IF os = <<>> THEN 0 ELSE QtyOf(Head(os).orderItems, p) + Sold(Tail(os), p)

\* C1: in every reachable state every product's committed stock, which is
\* what any reader of the store sees, is >= 0.
C1_StockNeverNegative == \A p \in Products : stock[p] >= 0

\* C2: with stock 1 for product 1 and every request asking one unit of it,
\* once all have answered (none hit a fault) exactly one answered 201, the
\* others 400, and the stock is 0.
C2_LastUnitOnce ==
  ( /\ initStock[1] = 1
    /\ \A r \in PostReqs : Done(r) /\ body[r] = OneUnitOf(1) /\ pstatus[r] # 500 )
  => /\ Cardinality({r \in PostReqs : pstatus[r] = 201}) = 1
     /\ \A r \in PostReqs : pstatus[r] \in {201, 400}
     /\ stock[1] = 0

\* C3 as stated: a committed placement leaves each product at the stock of
\* the start of its transaction minus the quantity its lines ask of it.
C3_FromTxStart ==
  \A r \in PostReqs : Committed(r) =>
    \A p \in Products : ph[r].postStock[p] = ph[r].txStart[p] - QtyOf(body[r].items, p)

\* C3 amended: a committed placement leaves each product at the committed
\* stock just before its commit minus the quantity its lines ask of it;
\* products it does not name keep their stock.
C3_FromCommit ==
  \A r \in PostReqs : Committed(r) =>
    \A p \in Products : ph[r].postStock[p] = ph[r].preStock[p] - QtyOf(body[r].items, p)

C3_Witness ==
  \E r \in PostReqs : /\ pstatus[r] = 201
                      /\ Len(body[r].items) = 2
                      /\ ph[r].txStart # ph[r].preStock

\* C4: placement is atomic. The committed stock is the initial stock less
\* the lines of the committed orders and nothing else; a committed order
\* has exactly the requested lines; a request whose transaction failed, or
\* that never opened one, has no order.
C4_Atomic ==
  /\ \A p \in Products : initStock[p] - stock[p] = Sold(orders, p)
  /\ \A r \in PostReqs :
       /\ Committed(r) =>
            /\ Len(created[r].orderItems) = Len(body[r].items)
            /\ \A i \in DOMAIN body[r].items :
                 /\ created[r].orderItems[i].productId = body[r].items[i].productId
                 /\ created[r].orderItems[i].quantity = body[r].items[i].quantity
       /\ (Done(r) /\ (pstatus[r] \in {400, 404} \/ (pstatus[r] = 500 /\ ph[r].bumps = 0)))
            => ~Committed(r)
  /\ Len(orders) = Cardinality({r \in PostReqs : Committed(r)})

\* a transaction rolled back after a stock update while another committed
C4_Witness ==
  \E r, r2 \in PostReqs : /\ Faulted(r) /\ ph[r].rolledBack >= 1
                          /\ pstatus[r2] = 201

\* C5: a request that did not answer 201 has not incremented ORDERS_VER,
\* has not written 'orders:ver' and has committed nothing.
C5_FailureChangesNothing ==
  \A r \in PostReqs : (Done(r) /\ pstatus[r] # 201) =>
    /\ ph[r].bumps = 0
    /\ setVal[r] = Null
    /\ ~Committed(r)

(* ======================== listings: properties ======================== *)
Answered(g) == get[g].pc = "done" /\ get[g].status = 200
Data(g) == JSONparse(get[g].resp).data
Shows(g, o) == \E j \in DOMAIN Data(g) : Data(g)[j].id = o.id
\* every committed order is on the page the GET asked for
OnePage(g) == get[g].page = 1 /\ Len(orders) <= get[g].limit

\* C6: a listing that starts a TTL or more after the commit of an order
\* whose POST has answered 201 shows that order, if it belongs to the page.
C6_ShownWithinTTL ==
  \A g \in GetReqs : (Answered(g) /\ OnePage(g)) =>
    \A k \in 1..gh[g].aged : Where(orders[k], get[g].search) => Shows(g, orders[k])

\* C7: a listing that starts after a POST has answered 201 is never served
\* a cached page whose rows were read before that order's commit.
C7_NoStaleHit ==
  \A g \in GetReqs : (Answered(g) /\ gh[g].src = "hit") => get[g].asOf >= gh[g].acked

\* C8: no step decreases the ORDERS_VER of an instance or the version
\* stored under 'orders:ver'.
VerNum(v) == IF Truthy(v) THEN Number(v) ELSE 0
C8_VersionMonotonic ==
  [][ /\ \A i \in Instances : ORDERS_VER'[i] >= ORDERS_VER[i]
      /\ VerNum(redisVer') >= VerNum(redisVer) ]_vars

\* C9: the payload a listing gets from the cache while no placement is
\* running is the payload the miss path would compute from the store at
\* that moment (so that a listing repeated then gets the same payload).
NoPlacementRunning == \A r \in PostReqs : ppc[r] \in {"idle", "done"}
MissPayload(g) ==
  JSONstringify(Payload(get[g].page, get[g].limit,
                        FindMany(orders, get[g].search,
                                 (get[g].page - 1) * get[g].limit, get[g].limit),
                        Count(orders, get[g].search)))
C9_HitEqualsMiss ==
  [][ \A g \in GetReqs :
        ( /\ NoPlacementRunning
          /\ get[g].pc # "done" /\ get'[g].pc = "done"
          /\ gh'[g].src = "hit" )
        => get'[g].resp = MissPayload(g) ]_vars

\* C10: a listing in which a Redis call threw still answers 200.
C10_CacheFaultSwallowed ==
  \A g \in GetReqs : (get[g].pc = "done" /\ gh[g].cacheFault) => get[g].status = 200

(* ================== placement: side effects, totals ================== *)
\* C11: a request whose transaction has committed answers 201, whatever
\* happens to the version bump after the commit.
C11_CommittedAnswers201 ==
  \A r \in PostReqs : (Done(r) /\ Committed(r)) => pstatus[r] = 201

\* the sum over the lines of quantity * price
RECURSIVE LinesTotal(_)
LinesTotal(lines) ==
  IF lines = <<>> THEN 0
  ELSE Head(lines).quantity * Head(lines).price + LinesTotal(Tail(lines))

C13_SnapshotIsCommitPrice ==
  \A i \in DOMAIN orders :
    \A k \in DOMAIN orders[i].orderItems :
      LET line == orders[i].orderItems[k]
      IN line.price = ph[orders[i].req].commitPrice[line.productId]

\* C14: a request without userId, or whose items is not a list or is an
\* empty list, answers 400 at once: it has made no call to the store, no
\* version bump and no notification, and has opened no transaction.
C14_Malformed(b) == b.userId = 0 \/ b.items = NotAList \/ b.items = <<>>
C14_RejectedBeforeStore ==
  \A r \in PostReqs : (ppc[r] # "idle" /\ C14_Malformed(body[r])) =>
    /\ Done(r) /\ pstatus[r] = 400
    /\ ~ph[r].accessed
    /\ ph[r].bumps = 0 /\ setVal[r] = Null
    /\ created[r] = None /\ ~Committed(r)
    /\ \A m \in queue : \E i \in DOMAIN orders : orders[i].id = m.orderId

\* one request with items not a list, the other with an empty list
C14_Witness ==
  \E r, r2 \in PostReqs :
    /\ Done(r) /\ body[r].items = NotAList
    /\ Done(r2) /\ body[r2].items = <<>>

\* C15: a well-formed request on which no call threw answers 404 exactly
\* when its user does not exist or one of its lines names a product that
\* does not exist.
C15_NotFoundExactly ==
  \A r \in PostReqs : (Done(r) /\ pstatus[r] # 500 /\ ~C14_Malformed(body[r])) =>
    ( pstatus[r] = 404 <=>
        \/ body[r].userId \notin Users
        \/ \E i \in DOMAIN body[r].items : body[r].items[i].productId \notin Products )

(* ===================== listings: pages and totals ===================== *)
Pagination(g) == JSONparse(get[g].resp).pagination
\* a search term that matches no user
MatchesNoUser(search) ==
  /\ search # NoSearch
  /\ \A u \in Users : ~Contains(UserRow(u).name, search) /\ ~Contains(UserRow(u).email, search)

\* C16: in every listing limit >= 1 and totalPages is the least number of
\* pages of limit rows that hold total rows, and 1 when there is none: 12
\* orders with limit 5 give 3 pages; a search that matches no user gives
\* total 0, no data and 1 page.
C16_TotalPages ==
  \A g \in GetReqs : Answered(g) =>
    LET pg == Pagination(g) IN
    /\ pg.limit >= 1
    /\ pg.totalPages >= 1
    /\ pg.totalPages * pg.limit >= pg.total
    /\ (pg.totalPages - 1) * pg.limit < Max(1, pg.total)
    /\ (pg.total = 12 /\ pg.limit = 5) => pg.totalPages = 3
    /\ MatchesNoUser(get[g].search) => (pg.total = 0 /\ Data(g) = <<>> /\ pg.totalPages = 1)

\* one listing of 12 orders by 5, another with a search that matches no user
C16_Witness ==
  \E g, g2 \in GetReqs :
    /\ Answered(g) /\ Pagination(g).total = 12 /\ Pagination(g).limit = 5
    /\ Answered(g2) /\ MatchesNoUser(get[g2].search) /\ Len(orders) > 0

\* the listing g was computed from the store (gh: "miss")
Missed(g) == Answered(g) /\ gh[g].src = "miss"
\* the matching orders the store held when the rows of g were read
MatchingAsRead(g) == {i \in 1..get[g].asOf : Where(orders[i], get[g].search)}
\* data holds the matching orders of positions (page-1)*limit+1 .. page*limit,
\* newest first, of n matching orders
PageOf(g, n) ==
  LET pg == Pagination(g)
      skip == (pg.page - 1) * pg.limit
  IN /\ Len(Data(g)) = Min(pg.limit, Max(0, n - skip))
     /\ \A k \in DOMAIN Data(g) :
          \E i \in MatchingAsRead(g) :
            /\ Data(g)[k] = orders[i]
            /\ Cardinality({j \in MatchingAsRead(g) : orders[j].createdAt > orders[i].createdAt})
                 = skip + k - 1

ProductsOf(b) == {b.items[i].productId : i \in DOMAIN b.items}
\* the request would be accepted if it ran alone against the initial stock
ValidAlone(b) ==
  /\ ~C14_Malformed(b)
  /\ b.userId \in Users
  /\ ProductsOf(b) \subseteq Products
  /\ Cardinality(ProductsOf(b)) = Len(b.items)
  /\ \A i \in DOMAIN b.items : b.items[i].quantity \in 1..initStock[b.items[i].productId]
Disjoint(r1, r2) ==
  /\ r1 # r2 /\ ppc[r1] # "idle" /\ ppc[r2] # "idle"
  /\ ValidAlone(body[r1]) /\ ValidAlone(body[r2])
  /\ ProductsOf(body[r1]) \cap ProductsOf(body[r2]) = {}

\* C18: of two requests over disjoint sets of products, each valid alone,
\* neither is rejected and neither waits for a row the other holds; once
\* answered, both have answered 201.
C18_DisjointBothPlaced ==
  \A r1, r2 \in PostReqs : Disjoint(r1, r2) =>
    /\ pstatus[r1] \in {0, 201}
    /\ Done(r1) => pstatus[r1] = 201
    /\ ppc[r1] = "txUpdate" => ~LockedByOther(r1, body[r1].items[txDone[r1] + 1].productId)

\* both placed, the request that committed first being the second one
C18_Witness ==
  \E r1, r2 \in PostReqs :
    /\ Disjoint(r1, r2) /\ pstatus[r1] = 201 /\ pstatus[r2] = 201
    /\ orders[1].req = r2 /\ r1 < r2

\* the notification of the order that r created has been handed off
Notified(r) == created[r] # None /\ \E m \in queue : m.orderId = created[r].id

\* C19: a request bumps the version and hands off the notification only
\* after its transaction has committed, the bump first: a request that is
\* bumping has committed and has not notified yet, one that has bumped or
\* notified has committed, one that has notified has bumped; every
\* notification is about a committed order.
C19_SideEffectsAfterCommit ==
  /\ \A r \in PostReqs :
       /\ ppc[r] \in {"bump", "bumpSet"} => (Committed(r) /\ ~Notified(r))
       /\ (ph[r].bumps > 0 \/ setVal[r] # Null) => Committed(r)
       /\ Notified(r) => (Committed(r) /\ ph[r].bumps = 1 /\ Done(r))
  /\ \A m \in queue : \E i \in DOMAIN orders : orders[i].id = m.orderId

\* one request placed, bumped through Redis and notified; another whose
\* transaction threw after a stock update
C19_Witness ==
  \E r, r2 \in PostReqs :
    /\ pstatus[r] = 201 /\ Notified(r) /\ setVal[r] # Null
    /\ Faulted(r2) /\ ph[r2].rolledBack >= 1 /\ ph[r2].bumps = 0

\* C20: once a request that committed an order has answered, the queue
\* holds exactly one confirm_order message with that order's id, and it
\* carries the placing user's email and the order's total.
C20_CommittedNotifiedOnce ==
  \A r \in PostReqs : (Done(r) /\ Committed(r)) =>
    LET ms == {m \in queue : m.orderId = created[r].id}
    IN /\ Cardinality(ms) = 1
       /\ \A m \in ms : /\ m.userEmail = UserRow(body[r].userId).email
                        /\ m.total = created[r].total

(* ======================= version counter: properties ================== *)
\* no request is running
Quiescent ==
  /\ \A r \in PostReqs : ppc[r] \in {"idle", "done"}
  /\ \A g \in GetReqs : get[g].pc \in {"idle", "done"}
\* the version the instances share: 'orders:ver', or the initial one while
\* the key is absent
PersistedVer == IF Truthy(redisVer) THEN Number(redisVer) ELSE InitialVer

\* C21: once every request has finished, the shared version is the initial
\* one plus the number of committed orders, and no two placements have
\* written the same version.
C21_OneBumpPerOrder ==
  Quiescent =>
    /\ PersistedVer = InitialVer + Len(orders)
    /\ \A r1, r2 \in PostReqs :
         (r1 # r2 /\ pstatus[r1] = 201 /\ pstatus[r2] = 201) => setVal[r1] # setVal[r2]

(* ===================== placement: locks and retries =================== *)
\* C22: no transaction ever waits for a product row held by a transaction
\* that waits, directly or not, for a row of the first.
C22_NoLockCycle == \A r \in PostReqs : ~Deadlocked(r)

\* C23: a request whose transaction the store aborted because of a
\* concurrent placement has opened a transaction again before answering.
C23_ConflictRetried ==
  \A r \in PostReqs : (Done(r) /\ ph[r].conflict) => ph[r].attempts >= 2

(* ========================= listing: hit and miss ====================== *)
KeyOf(g) == buildOrdersKey(get[g].page, get[g].limit, get[g].search, get[g].ver)
Unexpired(k) == k \in DOMAIN cache /\ now < cache[k].exp

C25_VersionCallsNeverRaise ==
  /\ \A r \in PostReqs :
       (Done(r) /\ ph[r].bumps = 1) =>
          pstatus[r] = 201 /\ ORDERS_VER[pinst[r]] >= InitialVer + 1
  /\ \A g \in GetReqs : get[g].pc = "done" => get[g].ver >= InitialVer

(* ====================== version counter: old keys ===================== *)
\* C26: a GET answered from the cache used a key whose version is at least
\* the highest version that a bump completed before the GET started had
\* reached, and no step other than the passing of time removes a cache entry.
C26_OldKeysNeverRead ==
  [][ /\ \A g \in GetReqs :
           (get'[g].pc = "done" /\ get'[g].status = 200 /\ gh'[g].src = "hit") =>
              get'[g].ver >= gh'[g].floor
      /\ now' = now => DOMAIN cache \subseteq DOMAIN cache' ]_vars

(* ========================= placement: quantities ====================== *)
NotPositiveInteger(x) == x \in {Undefined, Word} \/ x < 1
HasBadQuantity(b) == \E i \in DOMAIN b.items : NotPositiveInteger(b.items[i].quantity)

\* C27: a request of an existing user for existing products in which some
\* line's quantity is not a positive integer is answered 400, commits
\* nothing and bumps no version; every line of a committed order has a
\* positive integer quantity.
C27_BadQuantityRejected ==
  /\ \A r \in PostReqs :
       (Done(r) /\ HasBadQuantity(body[r])) =>
          pstatus[r] = 400 /\ ~Committed(r) /\ ph[r].bumps = 0
  /\ \A i \in DOMAIN orders : \A j \in DOMAIN orders[i].orderItems :
       ~NotPositiveInteger(orders[i].orderItems[j].quantity)

(* ===================== placement: lines and stock ===================== *)
\* C28: every order in the store placed by a request has as many lines as
\* the request has items, line i with the product and the quantity of item
\* i; the order answered with 201 is the committed order, with those lines
\* and the user of the request.
C28_LinesAsRequested ==
  /\ \A i \in DOMAIN orders :
       LET o == orders[i] IN
       o.req \in PostReqs =>
         /\ DOMAIN o.orderItems = DOMAIN body[o.req].items
         /\ \A k \in DOMAIN o.orderItems :
              /\ o.orderItems[k].productId = body[o.req].items[k].productId
              /\ o.orderItems[k].quantity = body[o.req].items[k].quantity
  /\ \A r \in PostReqs :
       pstatus[r] = 201 =>
         /\ \E i \in DOMAIN orders : orders[i] = created[r]
         /\ created[r].req = r
         /\ created[r].userId = body[r].userId
         /\ Len(created[r].orderItems) = Len(body[r].items)

\* an answered order of two lines with different quantities
C28_Witness ==
  \E r \in PostReqs :
    /\ pstatus[r] = 201 /\ Len(created[r].orderItems) = 2
    /\ created[r].orderItems[1].quantity # created[r].orderItems[2].quantity
    /\ created[r].userId = 1

\* C29: after every step, for every product, initial stock minus stock is
\* the quantity sold by the committed orders; a step that changes the stock
\* is the commit of one placement, which adds its order and takes from each
\* product what the items of the request ask of it.
C29_StockConserved ==
  [][ /\ \A p \in Products : initStock[p] - stock'[p] = Sold(orders', p)
      /\ stock' # stock =>
           \E r \in PostReqs :
             /\ ppc[r] = "txCommit"
             /\ Len(orders') = Len(orders) + 1
             /\ orders'[Len(orders')].req = r
             /\ \A p \in Products : stock[p] - stock'[p] = QtyOf(body[r].items, p) ]_vars

\* two committed orders that took the whole stock of one product
C29_Witness ==
  \E p \in Products :
    /\ Len(orders) = 2
    /\ QtyOf(orders[1].orderItems, p) >= 1 /\ QtyOf(orders[2].orderItems, p) >= 1
    /\ initStock[p] = MaxStock /\ stock[p] = 0

(* ======================== listing: one snapshot ======================= *)
\* C30: in every listing computed from the store, data has
\* min(limit, max(0, total - (page-1)*limit)) rows, total being the total of
\* the same payload.
C30_DataMatchesTotal ==
  \A g \in GetReqs : Missed(g) =>
    LET pg == Pagination(g)
    IN Len(Data(g)) = Min(pg.limit, Max(0, pg.total - (pg.page - 1) * pg.limit))

(* ====================== listing: nothing is written =================== *)
\* C31: a step of a GET, whatever it leads to, leaves stock, prices, orders
\* and the value under 'orders:ver' as they are; and no step of anything
\* removes an order of the store or changes one, its lines and their prices
\* included.
C31_ListingWritesNothing ==
  [][ /\ get' # get =>
           /\ stock' = stock /\ price' = price
           /\ orders' = orders /\ nextId' = nextId
           /\ redisVer' = redisVer
      /\ \A i \in DOMAIN orders : i \in DOMAIN orders' /\ orders'[i] = orders[i] ]_vars

\* a listing served from the cache and one computed from the store, with an
\* order committed by a placement whose product has a new price since
C31_Witness ==
  \E g, g2 \in GetReqs :
    /\ Answered(g) /\ gh[g].src = "hit"
    /\ Missed(g2)
    /\ Len(orders) = 2
    /\ price[1] # orders[2].orderItems[1].price

(* ========================== listing: the key ========================== *)
\* the GET has computed its cache key
HasKey(g) == get[g].pc \in {"cacheGet", "query", "setEx"} \/ Answered(g)
Fingerprint(g) == <<get[g].ver, get[g].page, get[g].limit, get[g].search>>

\* C32: two listings have the same cache key exactly when they have the same
\* version, page, limit and search; the payload under the key of a listing
\* was computed for its page and its limit and holds only orders that match
\* its search, and so does every answer from the cache.
C32_KeyInjective ==
  /\ \A g, h \in GetReqs :
       (HasKey(g) /\ HasKey(h)) => (KeyOf(g) = KeyOf(h) <=> Fingerprint(g) = Fingerprint(h))
  /\ \A g \in GetReqs :
       (HasKey(g) /\ KeyOf(g) \in DOMAIN cache) =>
          LET pl == JSONparse(cache[KeyOf(g)].val) IN
          /\ pl.pagination.page = get[g].page
          /\ pl.pagination.limit = get[g].limit
          /\ \A k \in DOMAIN pl.data : Where(pl.data[k], get[g].search)
  /\ \A g \in GetReqs :
       (Answered(g) /\ gh[g].src = "hit") =>
          /\ Pagination(g).page = get[g].page
          /\ Pagination(g).limit = get[g].limit
          /\ \A k \in DOMAIN Data(g) : Where(Data(g)[k], get[g].search)

\* a hit on page 11 with a search, answered with the entry that the other
\* listing stored under the same version, page, limit and search
C32_Witness ==
  \E g, h \in GetReqs :
    /\ Answered(g) /\ gh[g].src = "hit"
    /\ Missed(h)
    /\ Fingerprint(h) = Fingerprint(g) /\ KeyOf(h) = KeyOf(g)
    /\ get[g].page = 11 /\ get[g].search # NoSearch

====
